---- MODULE Spec2Model ----
(***************************************************************************)
(* Model of the two offline pipelines of flutter_ai_assistant/lib/         *)
(* model_training: train_model.py (train_model) and export_tflite.py       *)
(* (export_tflite_model, test_inference).                                  *)
(*                                                                         *)
(* A text is modelled after word splitting, as a sequence of words; word   *)
(* ids, padding, label encoding, the checkpoint policy, the order of the   *)
(* file writes and the propagation of exceptions are modelled as the code  *)
(* (and the Keras / scikit-learn calls it configures) computes them.       *)
(***************************************************************************)
EXTENDS Naturals, Integers, Sequences, FiniteSets, TLC

(***************************************************************************)
(* Bounds of the model.  The CONFIG values are scaled down so that the     *)
(* cases "text longer than max_sequence_length" and "more distinct words   *)
(* than max_vocab_size" occur within the bounds.                           *)
(***************************************************************************)
\* CONFIG['max_sequence_length'] (32 in both scripts), scaled
max_sequence_length == 2
\* CONFIG['max_vocab_size'] (10000), scaled
max_vocab_size == 3
\* longest text, in words
MaxTextLen == 3
\* most examples in a training table
MaxExamples == 2
\* CONFIG['epochs'] (100), scaled
epochs == 3
\* EarlyStopping(patience=10), scaled
patience == 2
\* val_loss and val_accuracy take the values 0..MaxMetric
MaxMetric == 1

\* words that occur in training texts
Words == {"a", "b", "c", "d"}
\* a word no training text holds
UnseenWord == "zz"
\* Tokenizer(oov_token='<OOV>')
oov_token == "<OOV>"
\* the intents, in the order np.unique / LabelEncoder sorts them
SortedLabels == <<"greeting", "time">>
Labels == {SortedLabels[i] : i \in 1..Len(SortedLabels)}

Min(a, b) == IF a <= b THEN a ELSE b
Range(s) == {s[i] : i \in 1..Len(s)}

RECURSIVE SeqsUpTo(_, _)
SeqsUpTo(S, n) ==
  IF n = 0 THEN {<<>>}
  ELSE LET shorter == SeqsUpTo(S, n - 1)
       IN  shorter \cup {Append(s, x) : s \in {t \in shorter : Len(t) = n - 1}, x \in S}

\* most words in a training table: enough for every word to occur
MaxWords == Cardinality(Words)

\* the lists of n texts that hold at most budget words in all
RECURSIVE TextLists(_, _)
TextLists(n, budget) ==
  IF n = 0 THEN {<<>>}
  ELSE UNION {{<<t>> \o rest : rest \in TextLists(n - 1, budget - Len(t))} :
                t \in SeqsUpTo(Words, Min(budget, MaxTextLen))}

\* a training table: the examples of a list of texts and a list of intents
Table(ts, ls) == [i \in 1..Len(ts) |-> [text |-> ts[i], intent |-> ls[i]]]
\* texts the exporter and the validator preprocess: seen and unseen words
ExportTexts == SeqsUpTo({"a", UnseenWord}, MaxTextLen)

(***************************************************************************)
(* keras Tokenizer                                                         *)
(***************************************************************************)
RECURSIVE Concat(_)
Concat(texts) ==
  IF texts = <<>> THEN <<>> ELSE Head(texts) \o Concat(Tail(texts))

\* the keys of Tokenizer.word_counts, an OrderedDict: first-seen order
RECURSIVE FirstSeen(_, _)
FirstSeen(stream, acc) ==
  IF stream = <<>> THEN acc
  ELSE FirstSeen(Tail(stream),
                 IF Head(stream) \in Range(acc) THEN acc ELSE Append(acc, Head(stream)))

Count(stream, w) == Cardinality({i \in 1..Len(stream) : stream[i] = w})

\* wcounts.sort(key=count, reverse=True): stable, descending by count
RECURSIVE InsertByCount(_, _, _)
InsertByCount(sorted, w, stream) ==
  IF sorted = <<>> THEN <<w>>
  ELSE IF Count(stream, Head(sorted)) >= Count(stream, w)
       THEN <<Head(sorted)>> \o InsertByCount(Tail(sorted), w, stream)
       ELSE <<w>> \o sorted

RECURSIVE SortByCount(_, _, _)
SortByCount(todo, sorted, stream) ==
  IF todo = <<>> THEN sorted
  ELSE SortByCount(Tail(todo), InsertByCount(sorted, Head(todo), stream), stream)

\* Tokenizer(num_words, oov_token).fit_on_texts(texts): sorted_voc is the OOV
\* token followed by every word of the corpus; word_index numbers them from 1
fit_on_texts(texts) ==
  LET stream == Concat(texts)
      sorted_voc == <<oov_token>> \o SortByCount(FirstSeen(stream, <<>>), <<>>, stream)
  IN  [num_words  |-> max_vocab_size,
       oov_token  |-> oov_token,
       word_index |-> [w \in Range(sorted_voc) |->
                         CHOOSE i \in 1..Len(sorted_voc) : sorted_voc[i] = w]]

\* text_to_sequence without the num_words cut-off: every word keeps its id
RECURSIVE text_to_sequence_uncapped(_, _)
text_to_sequence_uncapped(tok, text) ==
  IF text = <<>> THEN <<>>
  ELSE LET w == Head(text)
           id == IF w \in DOMAIN tok.word_index
                   THEN tok.word_index[w]
                   ELSE tok.word_index[tok.oov_token]
       IN  <<id>> \o text_to_sequence_uncapped(tok, Tail(text))

\* one row of Tokenizer.texts_to_sequences
RECURSIVE text_to_sequence(_, _)
text_to_sequence(tok, text) ==
  IF text = <<>> THEN <<>>
  ELSE LET w == Head(text)
           oov_index == tok.word_index[tok.oov_token]
           id == IF w \in DOMAIN tok.word_index
                   THEN IF tok.num_words # 0 /\ tok.word_index[w] >= tok.num_words
                          THEN oov_index
                          ELSE tok.word_index[w]
                   ELSE oov_index
       IN  <<id>> \o text_to_sequence(tok, Tail(text))

texts_to_sequences(tok, texts) ==
  [i \in 1..Len(texts) |-> text_to_sequence(tok, texts[i])]

\* pad_sequence that pads short rows and leaves long rows whole
pad_sequence_untruncated(seq, maxlen) ==
  [i \in 1..(IF Len(seq) > maxlen THEN Len(seq) ELSE maxlen) |->
     IF i <= Len(seq) THEN seq[i] ELSE 0]

\* one row of pad_sequences(maxlen, padding='post', truncating='post')
pad_sequence(seq, maxlen) ==
  LET trunc == SubSeq(seq, 1, Min(Len(seq), maxlen))
  IN  [i \in 1..maxlen |-> IF i <= Len(trunc) THEN trunc[i] ELSE 0]

pad_sequences(seqs, maxlen) ==
  [i \in 1..Len(seqs) |-> pad_sequence(seqs[i], maxlen)]

(***************************************************************************)
(* scikit-learn LabelEncoder, keras to_categorical                         *)
(***************************************************************************)
\* position of an intent in the sort order of strings
Rank(l) == CHOOSE i \in 1..Len(SortedLabels) : SortedLabels[i] = l

\* unique_labels in first-seen order instead of sorted
unique_labels_first_seen(intents) == FirstSeen(intents, <<>>)

\* LabelEncoder.fit: classes_ = np.unique(y), the distinct intents, sorted
unique_labels(intents) ==
  SelectSeq(SortedLabels, LAMBDA l : l \in Range(intents))

\* LabelEncoder.transform: the 0-based position of the intent in classes_
\* (np.searchsorted: how many classes sort before it)
encode(classes, l) ==
  Cardinality({i \in 1..Len(classes) : Rank(classes[i]) < Rank(l)})

\* to_categorical(k, num_classes): one-hot row, column k (0-based) set
to_categorical(k, num_classes) ==
  [j \in 1..num_classes |-> IF j = k + 1 THEN 1 ELSE 0]

\* np.argmax of a row, 0-based
argmax(row) ==
  (CHOOSE j \in 1..Len(row) : /\ \A i \in 1..Len(row) : row[i] <= row[j]
                              /\ \A i \in 1..(j - 1) : row[i] < row[j]) - 1

Column(df, field) == [i \in 1..Len(df) |-> df[i][field]]

\* preprocess_data(df) -> X, y, tokenizer, label_encoder
preprocess_data(df) ==
  LET tok     == fit_on_texts(Column(df, "text"))
      seqs    == texts_to_sequences(tok, Column(df, "text"))
      classes == unique_labels(Column(df, "intent"))
  IN  [X         |-> pad_sequences(seqs, max_sequence_length),
       y         |-> [i \in 1..Len(df) |->
                        to_categorical(encode(classes, df[i].intent), Len(classes))],
       tokenizer |-> tok,
       classes   |-> classes]

\* train_model: the size of the embedding table the model is built with
embedding_vocab_size(tok) ==
  Min(Cardinality(DOMAIN tok.word_index) + 1, max_vocab_size)

(***************************************************************************)
(* JSON files                                                              *)
(***************************************************************************)
\* Tokenizer.to_json: the configuration, word_index as the list of its
\* (word, id) items in insertion order
to_json(tok) ==
  [num_words  |-> tok.num_words,
   oov_token  |-> tok.oov_token,
   word_index |-> [i \in 1..Cardinality(DOMAIN tok.word_index) |->
                     <<CHOOSE w \in DOMAIN tok.word_index : tok.word_index[w] = i, i>>]]

\* tokenizer_from_json: the dictionary rebuilt from the items
tokenizer_from_json(js) ==
  [num_words  |-> js.num_words,
   oov_token  |-> js.oov_token,
   word_index |-> [w \in {js.word_index[i][1] : i \in 1..Len(js.word_index)} |->
                     js.word_index[CHOOSE i \in 1..Len(js.word_index) :
                                     js.word_index[i][1] = w][2]]]

\* export_tflite_model: the metadata record
make_metadata(tok, class_names) ==
  [input_shape         |-> <<1, max_sequence_length>>,
   output_shape        |-> <<1, Len(class_names)>>,
   class_names         |-> class_names,
   max_sequence_length |-> max_sequence_length,
   vocab_size          |-> Cardinality(DOMAIN tok.word_index) + 1]

(***************************************************************************)
(* Files                                                                   *)
(***************************************************************************)
ModelPath    == "models/intent_classifier.h5"
TokPath      == "models/tokenizer.json"
LabelPath    == "models/label_encoder.json"
HistoryPath  == "models/training_history.json"
TflitePath   == "assets/model.tflite"
QuantPath    == "assets/model_quantized.tflite"
MetaPath     == "assets/model_metadata.json"
Paths == {ModelPath, TokPath, LabelPath, HistoryPath, TflitePath, QuantPath, MetaPath}
AssetPaths == {TflitePath, QuantPath, MetaPath}

\* a file is absent, left by an earlier run ("old"), written whole by this
\* run, or opened for writing by this run and not written whole ("partial")
Absent       == [st |-> "absent"]
Old          == [st |-> "old"]
Partial      == [st |-> "partial"]
Written(d)   == [st |-> "written", data |-> d]
None         == [none |-> TRUE]

VARIABLES
  pc,             \* the statement the running script is at
  raised,         \* the step whose exception left the script, or "none"
  fs,             \* the files, by path
  df,             \* train_model: the training table
  tokenizer,      \* train_model: the fitted Tokenizer
  X, y,           \* train_model: padded sequences, one-hot labels
  classes,        \* train_model: label_encoder.classes_
  vocab_size,     \* train_model: rows of the embedding table
  ex_tokenizer,   \* export_tflite_model: the Tokenizer read back
  class_names,    \* export_tflite_model: the classes read back
  padded,         \* the exporter's last pad_sequences result and its caller
  metadata,       \* export_tflite_model: the metadata record
  epoch,          \* model.fit: epochs completed
  weights,        \* model.fit: the epoch the model's weights in memory are of
  history,        \* model.fit: val_loss and val_accuracy of each epoch
  es,             \* EarlyStopping: best, wait, best_weights, stop_training
  mc_best,        \* ModelCheckpoint: best
  tflite_model,   \* export_tflite_model: the float32 conversion result
  tflite_quantized_model,  \* export_tflite_model: the quantized result
  caught,         \* export_tflite_model: the step whose exception the
                  \* except clause caught, or "none"
  log,            \* export_tflite_model: the messages printed
  test_i,         \* test_inference: test texts done
  predicted       \* test_inference: the labels printed

datavars == <<df, tokenizer, X, y, classes, vocab_size>>
exdatavars == <<ex_tokenizer, class_names, padded, metadata>>
fitvars == <<epoch, weights, history, es, mc_best>>
convvars == <<tflite_model, tflite_quantized_model, caught, log>>
testvars == <<test_i, predicted>>
vars == <<pc, raised, fs, datavars, exdatavars, fitvars, convvars, testvars>>

NoFiles == [p \in Paths |-> Absent]
NoPadded == [by |-> "none", rows |-> <<>>]

\* val_loss's best before the first epoch (np.Inf) and val_accuracy's (-np.Inf)
\* lie outside the metric values 0..MaxMetric
Metrics == 0..MaxMetric
Inf == MaxMetric + 1
MinusInf == 0 - 1

FitIdle ==
  /\ epoch = 0 /\ weights = 0 /\ history = <<>>
  /\ es = [best |-> Inf, wait |-> 0, best_weights |-> 0, stop_training |-> FALSE]
  /\ mc_best = MinusInf
ConvIdle ==
  /\ tflite_model = None /\ tflite_quantized_model = None
  /\ caught = "none" /\ log = {}
TestIdle == test_i = 0 /\ predicted = <<>>

(***************************************************************************)
(* The data path of train_model followed by export_tflite_model, for every *)
(* bounded training table:  the functions applied in the scripts' order. *)
(***************************************************************************)
InitData ==
  /\ pc = "preprocess_data"
  /\ raised = "none"
  /\ fs = NoFiles
  /\ \E n \in 1..MaxExamples :
       \E ts \in TextLists(n, MaxWords), ls \in [1..n -> Labels] : df = Table(ts, ls)
  /\ tokenizer = None /\ X = <<>> /\ y = <<>> /\ classes = <<>> /\ vocab_size = 0
  /\ ex_tokenizer = None /\ class_names = <<>> /\ padded = NoPadded /\ metadata = None
  /\ FitIdle /\ ConvIdle /\ TestIdle

\* train_model, lines 213 and 225-226
DataPreprocess ==
  /\ pc = "preprocess_data"
  /\ LET r == preprocess_data(df)
     IN  /\ tokenizer' = r.tokenizer
         /\ X' = r.X
         /\ y' = r.y
         /\ classes' = r.classes
         /\ vocab_size' = embedding_vocab_size(r.tokenizer)
  /\ pc' = "save"
  /\ UNCHANGED <<raised, fs, df, exdatavars,
               fitvars, convvars, testvars>>

\* train_model, lines 263-275
DataSave ==
  /\ pc = "save"
  /\ fs' = [fs EXCEPT ![TokPath] = Written(to_json(tokenizer)),
                      ![LabelPath] = Written([classes |-> classes])]
  /\ pc' = "load_tokenizer_and_labels"
  /\ UNCHANGED <<raised, datavars, exdatavars,
               fitvars, convvars, testvars>>

\* export_tflite_model, line 93: a new process, train_model's table and
\* arrays are gone
DataLoad ==
  /\ pc = "load_tokenizer_and_labels"
  /\ ex_tokenizer' = tokenizer_from_json(fs[TokPath].data)
  /\ class_names' = fs[LabelPath].data.classes
  /\ df' = <<>> /\ X' = <<>> /\ y' = <<>>
  /\ pc' = "export"
  /\ UNCHANGED <<raised, fs, tokenizer, classes, vocab_size, padded, metadata,
               fitvars, convvars, testvars>>

\* create_representative_dataset, lines 65-74, for any sample text
DataRepresentative ==
  /\ pc = "export"
  /\ \E text \in ExportTexts :
       padded' = [by |-> "create_representative_dataset",
                  rows |-> pad_sequences(texts_to_sequences(ex_tokenizer, <<text>>),
                                         max_sequence_length)]
  /\ UNCHANGED <<pc, raised, fs, datavars, ex_tokenizer, class_names, metadata,
               fitvars, convvars, testvars>>

\* test_inference, lines 203-210, for any test text
DataValidator ==
  /\ pc = "export"
  /\ \E text \in ExportTexts :
       padded' = [by |-> "test_inference",
                  rows |-> pad_sequences(texts_to_sequences(ex_tokenizer, <<text>>),
                                         max_sequence_length)]
  /\ UNCHANGED <<pc, raised, fs, datavars, ex_tokenizer, class_names, metadata,
               fitvars, convvars, testvars>>

\* export_tflite_model, lines 154-171
DataMetadata ==
  /\ pc = "export"
  /\ metadata = None
  /\ metadata' = make_metadata(ex_tokenizer, class_names)
  /\ fs' = [fs EXCEPT ![MetaPath] = Written(make_metadata(ex_tokenizer, class_names))]
  /\ UNCHANGED <<pc, raised, datavars, ex_tokenizer, class_names, padded,
               fitvars, convvars, testvars>>

NextData ==
  \/ DataPreprocess
  \/ DataSave
  \/ DataLoad
  \/ DataRepresentative
  \/ DataValidator
  \/ DataMetadata

SpecData == InitData /\ [][NextData]_vars

(***************************************************************************)
(* train_model                                                             *)
(***************************************************************************)
\* load_data: the embedded table, scaled; its intents first occur in another
\* order than they sort
load_data ==
  Table(<< <<"a", "b", "c">>, <<"b">>, <<"a", "d">> >>, <<"time", "greeting", "time">>)

\* an uncaught exception in step ends the script
Raise(step) == pc' = "aborted" /\ raised' = step

\* with open(path, 'w') as f: f.write(data), then go on at next; open may
\* raise (the file is untouched) and write may raise (the file is truncated)
WriteFile(path, data, step, next) ==
  \/ /\ fs' = [fs EXCEPT ![path] = Written(data)]
     /\ pc' = next
     /\ UNCHANGED raised
  \/ /\ UNCHANGED fs
     /\ Raise(step)
  \/ /\ fs' = [fs EXCEPT ![path] = Partial]
     /\ Raise(step)

\* files an earlier training run may have left: none, the checkpoint only,
\* or all of them
TrainFiles ==
  {NoFiles,
   [NoFiles EXCEPT ![ModelPath] = Old],
   [p \in Paths |-> IF p \in AssetPaths THEN Absent ELSE Old]}

InitTrain ==
  /\ pc = "makedirs"
  /\ raised = "none"
  /\ fs \in TrainFiles
  /\ df = <<>>
  /\ tokenizer = None /\ X = <<>> /\ y = <<>> /\ classes = <<>> /\ vocab_size = 0
  /\ ex_tokenizer = None /\ class_names = <<>> /\ padded = NoPadded /\ metadata = None
  /\ FitIdle /\ ConvIdle /\ TestIdle

\* line 204
TrainMakedirs ==
  /\ pc = "makedirs"
  /\ \/ pc' = "load_data" /\ UNCHANGED raised
     \/ Raise("makedirs")
  /\ UNCHANGED <<fs, datavars, exdatavars, fitvars, convvars, testvars>>

\* lines 207-209
TrainLoadData ==
  /\ pc = "load_data"
  /\ df' = load_data
  /\ pc' = "preprocess_data"
  /\ UNCHANGED <<raised, fs, tokenizer, X, y, classes, vocab_size,
                 exdatavars, fitvars, convvars, testvars>>

\* lines 211-221
TrainPreprocess ==
  /\ pc = "preprocess_data"
  /\ LET r == preprocess_data(df)
     IN  /\ tokenizer' = r.tokenizer
         /\ X' = r.X
         /\ y' = r.y
         /\ classes' = r.classes
  /\ pc' = "create_model"
  /\ UNCHANGED <<raised, fs, df, vocab_size, exdatavars, fitvars, convvars, testvars>>

\* TrainCreateModel that also persists the tokenizer and the classes, before
\* the training step
TrainCreateModelAndSave ==
  /\ pc = "create_model"
  /\ vocab_size' = embedding_vocab_size(tokenizer)
  /\ fs' = [fs EXCEPT ![TokPath] = Written(to_json(tokenizer)),
                      ![LabelPath] = Written([classes |-> classes])]
  /\ pc' = "fit"
  /\ UNCHANGED <<raised, df, tokenizer, X, y, classes, exdatavars, fitvars, convvars, testvars>>

\* lines 223-250
TrainCreateModel ==
  /\ pc = "create_model"
  /\ \/ /\ vocab_size' = embedding_vocab_size(tokenizer)
        /\ pc' = "fit"
        /\ UNCHANGED raised
     \/ /\ Raise("create_model")
        /\ UNCHANGED vocab_size
  /\ UNCHANGED <<fs, df, tokenizer, X, y, classes, exdatavars, fitvars, convvars, testvars>>

\* EarlyStopping(monitor='val_loss', patience, restore_best_weights=True)
\* .on_epoch_end, the model holding the weights w: the callback's state and
\* the weights the model holds afterwards
EarlyStopping(e, val_loss, w) ==
  IF val_loss < e.best
    THEN [es |-> [best |-> val_loss, wait |-> 0, best_weights |-> w,
                  stop_training |-> FALSE],
          weights |-> w]
    ELSE IF e.wait + 1 >= patience
           THEN [es |-> [e EXCEPT !.wait = e.wait + 1, !.stop_training = TRUE],
                 weights |-> e.best_weights]
           ELSE [es |-> [e EXCEPT !.wait = e.wait + 1], weights |-> w]

\* ModelCheckpoint(monitor='val_accuracy', save_best_only=True): save?
ModelCheckpoint(best, val_accuracy) == val_accuracy > best

\* model.fit, lines 254-261: one epoch and its callbacks, in the order of the
\* callbacks list (EarlyStopping, then ModelCheckpoint)
TrainEpoch ==
  /\ pc = "fit"
  /\ epoch < epochs
  /\ ~es.stop_training
  /\ \/ /\ Raise("fit")
        /\ UNCHANGED <<fs, fitvars>>
     \/ \E val_loss \in Metrics, val_accuracy \in Metrics :
          LET stop == EarlyStopping(es, val_loss, epoch + 1)
          IN  /\ epoch' = epoch + 1
              /\ history' = Append(history, [val_loss |-> val_loss,
                                             val_accuracy |-> val_accuracy])
              /\ es' = stop.es
              /\ weights' = stop.weights
              /\ IF ModelCheckpoint(mc_best, val_accuracy)
                   THEN /\ mc_best' = val_accuracy
                        /\ WriteFile(ModelPath,
                                     [weights |-> stop.weights,
                                      val_accuracy |-> val_accuracy],
                                     "fit", "fit")
                   ELSE UNCHANGED <<mc_best, fs, pc, raised>>
  /\ UNCHANGED <<datavars, exdatavars, convvars, testvars>>

\* model.fit returns: the epochs are done or EarlyStopping stopped it
TrainFitReturns ==
  /\ pc = "fit"
  /\ epoch = epochs \/ es.stop_training
  /\ pc' = "save_tokenizer"
  /\ UNCHANGED <<raised, fs, datavars, exdatavars, fitvars, convvars, testvars>>

\* lines 263-267
TrainSaveTokenizer ==
  /\ pc = "save_tokenizer"
  /\ WriteFile(TokPath, to_json(tokenizer), "save_tokenizer", "save_label_encoder")
  /\ UNCHANGED <<datavars, exdatavars, fitvars, convvars, testvars>>

\* lines 269-275
TrainSaveLabelEncoder ==
  /\ pc = "save_label_encoder"
  /\ WriteFile(LabelPath, [classes |-> classes], "save_label_encoder", "evaluate")
  /\ UNCHANGED <<datavars, exdatavars, fitvars, convvars, testvars>>

\* lines 277-281
TrainEvaluate ==
  /\ pc = "evaluate"
  /\ \/ pc' = "save_history" /\ UNCHANGED raised
     \/ Raise("evaluate")
  /\ UNCHANGED <<fs, datavars, exdatavars, fitvars, convvars, testvars>>

\* lines 283-296
TrainSaveHistory ==
  /\ pc = "save_history"
  /\ WriteFile(HistoryPath, history, "save_history", "done")
  /\ UNCHANGED <<datavars, exdatavars, fitvars, convvars, testvars>>

NextTrain ==
  \/ TrainMakedirs
  \/ TrainLoadData
  \/ TrainPreprocess
  \/ TrainCreateModel
  \/ TrainEpoch
  \/ TrainFitReturns
  \/ TrainSaveTokenizer
  \/ TrainSaveLabelEncoder
  \/ TrainEvaluate
  \/ TrainSaveHistory

SpecTrain == InitTrain /\ [][NextTrain]_vars

(***************************************************************************)
(* export_tflite_model, test_inference                                     *)
(***************************************************************************)
\* create_representative_dataset: sample_texts, scaled; some words are not
\* in the training table
sample_texts == << <<"a", "b">>, <<"c", UnseenWord, "a">>, <<UnseenWord>> >>
\* test_inference: test_texts, scaled
test_texts == << <<"a", "b">>, <<"c">>, <<UnseenWord, "d">>, <<"b", "a", "d">> >>

\* the artifacts a conversion returns, with the input type each declares
Float32Model == [kind |-> "float32", input_type |-> "float32"]
Int8Model    == [kind |-> "int8", input_type |-> "int8"]
DynamicModel == [kind |-> "dynamic", input_type |-> "float32"]

\* what a completed training run of load_data leaves in models/
TrainedFiles ==
  LET r == preprocess_data(load_data)
  IN  [p \in Paths |->
         IF p = ModelPath THEN Written([weights |-> 1, val_accuracy |-> 1])
         ELSE IF p = TokPath THEN Written(to_json(r.tokenizer))
         ELSE IF p = LabelPath THEN Written([classes |-> r.classes])
         ELSE IF p = HistoryPath THEN Written(<<>>)
         ELSE Absent]

\* any of the three inputs may be missing, any asset may be left by an
\* earlier export
InitExport ==
  /\ pc = "assets_dir"
  /\ raised = "none"
  /\ \E missing \in SUBSET {ModelPath, TokPath, LabelPath}, old \in SUBSET AssetPaths :
       fs = [p \in Paths |-> IF p \in missing THEN Absent
                             ELSE IF p \in old THEN Old
                             ELSE TrainedFiles[p]]
  /\ df = <<>>
  /\ tokenizer = None /\ X = <<>> /\ y = <<>> /\ classes = <<>> /\ vocab_size = 0
  /\ ex_tokenizer = None /\ class_names = <<>> /\ padded = NoPadded /\ metadata = None
  /\ FitIdle /\ ConvIdle /\ TestIdle

\* ExportMakedirs that also opens the metadata file for writing
ExportMakedirsAndOpen ==
  /\ pc = "assets_dir"
  /\ fs' = [fs EXCEPT ![MetaPath] = Partial]
  /\ pc' = "load_model"
  /\ UNCHANGED <<raised, datavars, exdatavars, fitvars, convvars, testvars>>

\* line 86
ExportMakedirs ==
  /\ pc = "assets_dir"
  /\ \/ pc' = "load_model" /\ UNCHANGED raised
     \/ Raise("makedirs")
  /\ UNCHANGED <<fs, datavars, exdatavars, fitvars, convvars, testvars>>

\* lines 88-90: load_model raises when the file is missing, and may raise
\* on a file that is there
ExportLoadModel ==
  /\ pc = "load_model"
  /\ \/ /\ fs[ModelPath].st = "written"
        /\ pc' = "load_tokenizer"
        /\ UNCHANGED raised
     \/ Raise("load_model")
  /\ UNCHANGED <<fs, datavars, exdatavars, fitvars, convvars, testvars>>

\* lines 28-31, called at line 93
ExportLoadTokenizer ==
  /\ pc = "load_tokenizer"
  /\ \/ /\ fs[TokPath].st = "written"
        /\ ex_tokenizer' = tokenizer_from_json(fs[TokPath].data)
        /\ pc' = "load_labels"
        /\ UNCHANGED raised
     \/ /\ Raise("load_tokenizer")
        /\ UNCHANGED ex_tokenizer
  /\ UNCHANGED <<fs, datavars, class_names, padded, metadata, fitvars, convvars, testvars>>

\* lines 33-37
ExportLoadLabels ==
  /\ pc = "load_labels"
  /\ \/ /\ fs[LabelPath].st = "written"
        /\ class_names' = fs[LabelPath].data.classes
        /\ pc' = "convert_float"
        /\ UNCHANGED raised
     \/ /\ Raise("load_labels")
        /\ UNCHANGED class_names
  /\ UNCHANGED <<fs, datavars, ex_tokenizer, padded, metadata, fitvars, convvars, testvars>>

\* lines 95-100
ExportConvertFloat ==
  /\ pc = "convert_float"
  /\ \/ /\ tflite_model' = Float32Model
        /\ pc' = "write_float"
        /\ UNCHANGED raised
     \/ /\ Raise("convert_float")
        /\ UNCHANGED tflite_model
  /\ UNCHANGED <<fs, datavars, exdatavars, fitvars, tflite_quantized_model, caught, log,
                 testvars>>

\* lines 102-107
ExportWriteFloat ==
  /\ pc = "write_float"
  /\ WriteFile(TflitePath, tflite_model, "write_float", "convert_int8")
  /\ log' = IF pc' = "aborted" THEN log ELSE log \cup {"Float32 model saved"}
  /\ UNCHANGED <<datavars, exdatavars, fitvars, tflite_model, tflite_quantized_model,
                 caught, testvars>>

\* an exception raised inside the try block (lines 125-135): the except
\* clause (line 137) takes it, whatever it is
Except(step) == pc' = "except" /\ caught' = step

\* ExportConvertInt8 with the conversion outside the try block: its
\* exception leaves the script
ExportConvertInt8Uncaught ==
  /\ pc = "convert_int8"
  /\ Raise("convert_int8")
  /\ UNCHANGED <<fs, datavars, exdatavars, fitvars, convvars, testvars>>

\* lines 109-127: the representative dataset, then the int8 conversion
ExportConvertInt8 ==
  /\ pc = "convert_int8"
  /\ padded' = [by |-> "create_representative_dataset",
                rows |-> pad_sequences(texts_to_sequences(ex_tokenizer, sample_texts),
                                       max_sequence_length)]
  /\ \/ /\ tflite_quantized_model' = Int8Model
        /\ pc' = "write_quant"
        /\ UNCHANGED caught
     \/ /\ Except("convert_int8")
        /\ UNCHANGED tflite_quantized_model
  /\ UNCHANGED <<raised, fs, datavars, ex_tokenizer, class_names, metadata, fitvars,
                 tflite_model, log, testvars>>

\* lines 129-131, inside the try block
ExportWriteQuant ==
  /\ pc = "write_quant"
  /\ \/ /\ fs' = [fs EXCEPT ![QuantPath] = Written(tflite_quantized_model)]
        /\ pc' = "report_quant"
        /\ UNCHANGED caught
     \/ /\ UNCHANGED fs
        /\ Except("write_quant")
     \/ /\ fs' = [fs EXCEPT ![QuantPath] = Partial]
        /\ Except("write_quant")
  /\ UNCHANGED <<raised, datavars, exdatavars, fitvars, tflite_model,
                 tflite_quantized_model, log, testvars>>

\* lines 133-135, inside the try block
ExportReportQuant ==
  /\ pc = "report_quant"
  /\ \/ /\ log' = log \cup {"Quantized model saved"}
        /\ pc' = "write_metadata"
        /\ UNCHANGED caught
     \/ /\ Except("report_quant")
        /\ UNCHANGED log
  /\ UNCHANGED <<raised, fs, datavars, exdatavars, fitvars, tflite_model,
                 tflite_quantized_model, testvars>>

\* lines 137-139
ExportExcept ==
  /\ pc = "except"
  /\ log' = log \cup {"Quantization failed", "Using dynamic range quantization instead"}
  /\ pc' = "convert_dynamic"
  /\ UNCHANGED <<raised, fs, datavars, exdatavars, fitvars, tflite_model,
                 tflite_quantized_model, caught, testvars>>

\* lines 141-145
ExportConvertDynamic ==
  /\ pc = "convert_dynamic"
  /\ \/ /\ tflite_quantized_model' = DynamicModel
        /\ pc' = "write_dynamic"
        /\ UNCHANGED raised
     \/ /\ Raise("convert_dynamic")
        /\ UNCHANGED tflite_quantized_model
  /\ UNCHANGED <<fs, datavars, exdatavars, fitvars, tflite_model, caught, log, testvars>>

\* lines 147-151
ExportWriteDynamic ==
  /\ pc = "write_dynamic"
  /\ WriteFile(QuantPath, tflite_quantized_model, "write_dynamic", "write_metadata")
  /\ log' = IF pc' = "aborted" THEN log ELSE log \cup {"Dynamic quantized model saved"}
  /\ UNCHANGED <<datavars, exdatavars, fitvars, tflite_model, tflite_quantized_model,
                 caught, testvars>>

\* lines 153-173
ExportWriteMetadata ==
  /\ pc = "write_metadata"
  /\ metadata' = make_metadata(ex_tokenizer, class_names)
  /\ WriteFile(MetaPath, metadata', "write_metadata", "test_float")
  /\ UNCHANGED <<datavars, ex_tokenizer, class_names, padded, fitvars, convvars, testvars>>

TestPath == IF pc = "test_float" THEN TflitePath ELSE QuantPath

\* test_inference, lines 202-223: one test text.  set_tensor raises
\* ValueError when the array's type (float32, line 213) is not the type the
\* artifact's input declares; the label printed is any class
ExportTestText ==
  /\ pc \in {"test_float", "test_quant"}
  /\ test_i < Len(test_texts)
  /\ padded' = [by |-> "test_inference",
                rows |-> pad_sequences(
                           texts_to_sequences(ex_tokenizer, <<test_texts[test_i + 1]>>),
                           max_sequence_length)]
  /\ IF fs[TestPath].data.input_type = "float32"
       THEN /\ \E k \in 1..Len(class_names) : predicted' = <<class_names[k]>>
            /\ test_i' = test_i + 1
            /\ UNCHANGED <<pc, raised>>
       ELSE /\ Raise("set_tensor")
            /\ UNCHANGED testvars
  /\ UNCHANGED <<fs, datavars, ex_tokenizer, class_names, metadata, fitvars, convvars>>

\* test_inference returns; lines 177-180
ExportTestReturns ==
  /\ pc \in {"test_float", "test_quant"}
  /\ test_i = Len(test_texts)
  /\ test_i' = 0
  /\ IF pc = "test_float"
       THEN pc' = "test_quant" /\ UNCHANGED log
       ELSE pc' = "done" /\ log' = log \cup {"Export completed successfully!"}
  /\ UNCHANGED <<raised, fs, datavars, exdatavars, fitvars, tflite_model,
                 tflite_quantized_model, caught, predicted>>

NextExport ==
  \/ ExportMakedirs
  \/ ExportLoadModel
  \/ ExportLoadTokenizer
  \/ ExportLoadLabels
  \/ ExportConvertFloat
  \/ ExportWriteFloat
  \/ ExportConvertInt8
  \/ ExportWriteQuant
  \/ ExportReportQuant
  \/ ExportExcept
  \/ ExportConvertDynamic
  \/ ExportWriteDynamic
  \/ ExportWriteMetadata
  \/ ExportTestText
  \/ ExportTestReturns

SpecExport == InitExport /\ [][NextExport]_vars

(***************************************************************************)
(* Claims on the data path (SpecData)                                      *)
(***************************************************************************)
AllPaddedRows == Range(X) \cup Range(padded.rows)
PersistedWordIndex == fs[TokPath].data.word_index

\* C7: the vocabulary persisted to models/tokenizer.json holds at most
\* max_vocab_size entries, and so the vocab_size of the metadata (entries + 1)
\* is at most max_vocab_size + 1, for every training table.
C7_VocabularyCapped ==
  /\ fs[TokPath].st = "written" => Len(PersistedWordIndex) <= max_vocab_size
  /\ metadata # None => metadata.vocab_size <= max_vocab_size + 1

\* C8: every padded sequence made at training time, for the representative
\* dataset and by the validator has exactly max_sequence_length entries, and
\* there is one for every text.
C8_PaddedLength ==
  /\ \A row \in AllPaddedRows : Len(row) = max_sequence_length
  /\ X # <<>> => Len(X) = Len(df)

\* C8 witness: a training table with a text longer than max_sequence_length
\* and an empty text has been padded.
C8_Witness ==
  /\ X # <<>>
  /\ \E i \in 1..Len(df) : Len(df[i].text) > max_sequence_length
  /\ \E i \in 1..Len(df) : df[i].text = <<>>

\* C9: the persisted classes list, which the exporter reads back as
\* class_names, maps the index each training label was one-hot-encoded with
\* back to the label; the indices used are exactly 0..num_classes-1 and the
\* list has no duplicates.
C9_LabelRoundTrip ==
  /\ y # <<>> =>
       LET cls == IF fs[LabelPath].st = "written"
                    THEN fs[LabelPath].data.classes ELSE classes
       IN  /\ \A i \in 1..Len(df) : cls[argmax(y[i]) + 1] = df[i].intent
           /\ {argmax(y[i]) : i \in 1..Len(df)} = 0..(Len(cls) - 1)
           /\ \A j, k \in 1..Len(cls) : cls[j] = cls[k] => j = k
  /\ class_names # <<>> =>
       /\ class_names = fs[LabelPath].data.classes
       /\ class_names = classes

\* C9 witness: the classes of a table whose intents first occur in the
\* opposite of their sort order have been persisted.
C9_Witness ==
  /\ fs[LabelPath].st = "written"
  /\ Len(df) = 2
  /\ df[1].intent = "time"
  /\ df[2].intent = "greeting"

\* C10: every integer of every padded sequence (training inputs,
\* representative dataset, validator inputs) lies in 0 .. vocab_size-1, the
\* rows of the embedding table, vocab_size being
\* min(vocabulary entries + 1, max_vocab_size).
C10_IdsInEmbedding ==
  /\ tokenizer # None =>
       vocab_size = Min(Cardinality(DOMAIN tokenizer.word_index) + 1, max_vocab_size)
  /\ \A row \in AllPaddedRows :
       \A i \in 1..Len(row) : row[i] \in 0..(vocab_size - 1)

\* C10 witness: the exporter padded a text under a vocabulary of more
\* distinct words than max_vocab_size, with a word id and the OOV id in it.
C10_Witness ==
  /\ padded.by = "create_representative_dataset"
  /\ Cardinality(DOMAIN ex_tokenizer.word_index) - 1 > max_vocab_size
  /\ padded.rows[1] = <<2, 1>>

(***************************************************************************)
(* Claims on train_model (SpecTrain)                                       *)
(***************************************************************************)
AfterFit == {"save_tokenizer", "save_label_encoder", "evaluate", "save_history", "done"}
ThisRun == {"written", "partial"}

\* C3, as claimed: models/tokenizer.json and models/label_encoder.json are
\* written before the training step starts, so both are there, written by
\* this run, while the training step runs and when it fails.
C3_SavedBeforeTraining ==
  (pc = "fit" \/ raised = "fit") =>
     /\ fs[TokPath].st = "written"
     /\ fs[LabelPath].st = "written"

\* C3, amended: the two files are written only after the training step
\* (model.fit) has returned; in a run whose training step fails neither has
\* been written by this run, and once the run is past the two writes both
\* are written.
C3_SavedAfterTraining ==
  /\ \A p \in {TokPath, LabelPath} :
       fs[p].st \in ThisRun => (pc \in AfterFit \/ raised \in AfterFit)
  /\ raised = "fit" => \A p \in {TokPath, LabelPath} : fs[p].st \notin ThisRun
  /\ pc \in {"evaluate", "save_history", "done"} =>
       /\ fs[TokPath] = Written(to_json(tokenizer))
       /\ fs[LabelPath] = Written([classes |-> classes])

\* C3 witness: the training step failed after an epoch wrote a checkpoint,
\* and there is no tokenizer or label encoder file.
C3_Witness ==
  /\ raised = "fit"
  /\ epoch >= 1
  /\ fs[ModelPath].st = "written"
  /\ fs[TokPath].st = "absent"
  /\ fs[LabelPath].st = "absent"

\* the first epoch that reached the highest validation accuracy so far
EarliestBestEpoch(h) ==
  CHOOSE e \in 1..Len(h) :
    /\ \A k \in 1..Len(h) : h[k].val_accuracy <= h[e].val_accuracy
    /\ \A k \in 1..(e - 1) : h[k].val_accuracy < h[e].val_accuracy

\* C5: the trained-model file is overwritten at the end of an epoch only when
\* the epoch's validation accuracy is strictly better than the checkpoint's
\* before it, hence the file written by this run holds the weights of the
\* earliest epoch that reached the highest validation accuracy so far (in a
\* run in which no step has failed).
C5_CheckpointIsBestEpoch ==
  (fs[ModelPath].st = "written" /\ raised = "none") =>
     /\ fs[ModelPath].data.val_accuracy = history[EarliestBestEpoch(history)].val_accuracy
     /\ fs[ModelPath].data.weights = EarliestBestEpoch(history)

\* the first half of C5 alone: the file changes only at the end of an epoch
\* whose validation accuracy is strictly better than the checkpoint's
C5_OverwrittenOnlyOnImprovement ==
  [][fs'[ModelPath] # fs[ModelPath] =>
       /\ epoch' = epoch + 1
       /\ fs[ModelPath].st = "written" =>
            history'[epoch'].val_accuracy > fs[ModelPath].data.val_accuracy]_vars

(***************************************************************************)
(* Claims on export_tflite_model (SpecExport)                              *)
(***************************************************************************)
\* the steps that raised an exception in this run
Failures ==
  (IF caught = "none" THEN {} ELSE {caught}) \cup (IF raised = "none" THEN {} ELSE {raised})
AfterExcept ==
  {"convert_dynamic", "write_dynamic", "write_metadata", "test_float", "test_quant", "done"}

\* C1: when the int8 conversion raises, the exception does not leave the
\* script; it is logged, the dynamic range conversion is run, its result is
\* written to assets/model_quantized.tflite, the metadata file is written,
\* the validator runs through and the run ends with success.  The int8
\* failure never ends the run: a run that does not end with success after it
\* is one whose fallback conversion or one of whose two later writes raised
\* an exception of its own.
C1_FallbackOnQuantFailure ==
  "convert_int8" \in Failures =>
     /\ raised \in {"none", "convert_dynamic", "write_dynamic", "write_metadata"}
     /\ pc \in {"except"} \cup AfterExcept \/ pc = "aborted"
     /\ pc \in AfterExcept => "Quantization failed" \in log
     /\ pc \in AfterExcept \ {"convert_dynamic"} => tflite_quantized_model = DynamicModel
     /\ pc \in {"write_metadata", "test_float", "test_quant", "done"} =>
          fs[QuantPath] = Written(DynamicModel)
     /\ pc \in {"test_float", "test_quant", "done"} => fs[MetaPath].st = "written"
     /\ pc = "done" => "Export completed successfully!" \in log

\* C1 witness: a run whose int8 conversion raised has ended with success.
C1_Witness ==
  /\ caught = "convert_int8"
  /\ pc = "done"
  /\ raised = "none"
  /\ fs[QuantPath] = Written(DynamicModel)

\* C2: when the trained model, the tokenizer or the label encoder cannot be
\* loaded the run aborts there, and none of the three assets has been
\* created, modified or partly written by this run.
C2_LoadFailureLeavesAssets ==
  /\ raised \in {"load_model", "load_tokenizer", "load_labels"} =>
       /\ pc = "aborted"
       /\ \A p \in AssetPaths : fs[p].st \notin ThisRun
  /\ (fs[ModelPath].st = "absent" /\ pc \notin {"assets_dir", "load_model"}) =>
       raised \in {"makedirs", "load_model"}
  /\ (fs[TokPath].st = "absent" /\ pc \notin {"assets_dir", "load_model", "load_tokenizer"}) =>
       raised \in {"makedirs", "load_model", "load_tokenizer"}
  /\ (fs[LabelPath].st = "absent"
        /\ pc \notin {"assets_dir", "load_model", "load_tokenizer", "load_labels"}) =>
       raised \in {"makedirs", "load_model", "load_tokenizer", "load_labels"}

\* C2 witness: the run aborted on a missing tokenizer file, the model file
\* being there, with the assets of an earlier export untouched.
C2_Witness ==
  /\ raised = "load_tokenizer"
  /\ fs[TokPath].st = "absent"
  /\ fs[ModelPath].st = "written"
  /\ \A p \in AssetPaths : fs[p].st = "old"

\* C4: the only failure the export recovers from is that of the int8
\* conversion; any other exception, one raised while writing
\* assets/model_quantized.tflite or reporting its size included, ends the
\* run, with no further conversion and no second write.
C4_OnlyQuantizationRecovered ==
  caught \in {"none", "convert_int8"}

\* C6: once both artifacts and the metadata file are written, test_inference
\* cannot change the outcome: whatever labels it predicts and whatever input
\* type an artifact declares, no exception ends the run.
C6_ValidatorNeverFails ==
  (\A p \in AssetPaths : fs[p].st = "written") => raised = "none"

====
